---- MODULE Spec2Model ----
(***************************************************************************)
(* A model of calamari_ocr/ocr/dataset/datareader/pagexml/reader.py:       *)
(* the PageXML line extractor (PageXMLDatasetLoader), the cutout geometry  *)
(* (PageXMLReader.cutout), the sample assembler (_load_sample) and the     *)
(* write-back tracker (store_text / store / prepare_store).                *)
(***************************************************************************)
EXTENDS Integers, Sequences, FiniteSets, TLC

(***************************************************************************)
(* Bounds of the model.                                                    *)
(***************************************************************************)
NumPages == 2
NumLines == 2
MaxCalls == 5
MaxAttachCalls == 2
MaxLines == 2
ImgH == 2
ImgW == 3
MaxPoints == 3

(***************************************************************************)
(* Program constants.                                                      *)
(***************************************************************************)
\* self._last_page_id = None: "no page tracked".  Page ids are the paths of
\* existing xml files, hence non-empty (truthy) strings; they are numbered
\* 1..NumPages here and the falsy None is 0.
NoPage == 0
\* args.text_index, the TextEquiv index the reader is configured with.
text_index == 0
\* a TextEquiv element that carries no index attribute
NoIndex == -1

Pages == 1..NumPages
Lines == 1..NumLines
Texts == {"a", "b"}

VARIABLES
    docs,           \* self.pages: page -> line -> sequence of TextEquiv children
    last_page_id,   \* self._last_page_id
    writes,         \* files written so far: <<[page, doc, at]>>, at = number of the call
    calls,          \* history of the calls made on the reader
    input,          \* one load: the loader's and the caller's arguments, the files
    pc,             \* where the load stands: call, for, lines, done, raised
    gen,            \* what loader.load returned
    cursor,         \* the TextLine the generator is at
    samples,        \* the records the caller has received
    fate,           \* what became of each TextLine visited
    err,            \* the exception that ended the load
    img,            \* _load_sample's img: the shape of the page image
    cutouts,        \* the arguments of each call of cutout from _load_sample
    warned,         \* number of logger.warning calls
    cut_in,         \* one call of cutout: its arguments
    cut_out         \* one call of cutout: its result

trackerVars == <<docs, last_page_id, writes, calls>>
loadVars == <<input, pc, gen, cursor, samples, fate, err, img, cutouts, warned>>
cutVars == <<cut_in, cut_out>>
vars == <<trackerVars, loadVars, cutVars>>

\* Python's None
None == "<None>"

(***************************************************************************)
(* The document tree.  A TextLine is modelled by its TextEquiv children in *)
(* document order; each has a namespace flag (ns = TRUE: the tag is in the *)
(* PAGE namespace, as every parsed element is), an index attribute and its *)
(* Unicode children.                                                       *)
(***************************************************************************)
Unicode(ns, text) == [ns |-> ns, text |-> text]
TextEquiv(ns, index, uni) == [ns |-> ns, index |-> index, uni |-> uni]

\* The TextEquiv children a parsed TextLine may have: none; one with the
\* configured index; an untagged one; one with another index followed by one
\* with the configured index and no Unicode child yet.
LineKinds == 1..4
LineOfKind(k) ==
    CASE k = 1 -> << >>
      [] k = 2 -> << TextEquiv(TRUE, text_index, << Unicode(TRUE, "old") >>) >>
      [] k = 3 -> << TextEquiv(TRUE, NoIndex, << Unicode(TRUE, "gt") >>) >>
      [] OTHER -> << TextEquiv(TRUE, text_index + 1, << Unicode(TRUE, "alt") >>),
                     TextEquiv(TRUE, text_index, << >>) >>

\* The pages of a run of sequential prediction: the kinds of line alternate
\* with the line number.
InitDocs == [p \in Pages |-> [l \in Lines |-> LineOfKind(((l - 1) % 4) + 1)]]

\* self.xmlfiles: the page ids in the order the reader was given them
xmlfiles == [i \in 1..NumPages |-> i]

\* list.index(x): the first position holding x
ListIndex(s, x) == CHOOSE i \in 1..Len(s) : s[i] = x /\ \A j \in 1..(i-1) : s[j] # x

\* the first of the positions, 0 when there is none (find returns None)
FirstOf(hits) == IF hits = {} THEN 0 ELSE CHOOSE i \in hits : \A j \in hits : i <= j

\* line.find('./ns:TextEquiv[@index="N"]'): the first child in the namespace
\* that carries the configured index
FindTextEquiv(children) ==
    FirstOf({i \in 1..Len(children) : children[i].ns /\ children[i].index = text_index})

\* textequivxml.find('./ns:Unicode'): the first Unicode child in the namespace
FindUnicode(uni) == FirstOf({i \in 1..Len(uni) : uni[i].ns})

\* etree.SubElement(parent, "TAG"): a new last child whose tag is the bare
\* name, i.e. in no namespace
SubElementTextEquiv(children) == Append(children, TextEquiv(FALSE, text_index, << >>))
SubElementUnicode(uni) == Append(uni, Unicode(FALSE, ""))

\* lines 314-318: find or create the Unicode child and set its text
SetUnicode(te, sentence) ==
    LET found == FindUnicode(te.uni)
        uni   == IF found = 0 THEN SubElementUnicode(te.uni) ELSE te.uni
        k     == IF found = 0 THEN Len(uni) ELSE found
    IN  [te EXCEPT !.uni = [uni EXCEPT ![k].text = sentence]]

\* lines 307-318: the effect of store_text on the line's children
AttachText(children, sentence) ==
    LET found == FindTextEquiv(children)
        ch    == IF found = 0 THEN SubElementTextEquiv(children) ELSE children
        k     == IF found = 0 THEN Len(ch) ELSE found
    IN  [ch EXCEPT ![k] = SetUnicode(ch[k], sentence)]

\* etree.tounicode(page.getroottree()): the markup of the page.  Only what the
\* markup shows is kept: element names are written without prefix whether or
\* not the element is in the default namespace.
SerializeLine(children) ==
    [i \in 1..Len(children) |->
        [index |-> children[i].index,
         uni   |-> [j \in 1..Len(children[i].uni) |-> children[i].uni[j].text]]]
Serialize(doc) == [l \in DOMAIN doc |-> SerializeLine(doc[l])]

\* _store_page(extension, page_id): one file written, from the document at
\* the position of page_id in xmlfiles
WritePage(w, page_id, at) ==
    Append(w, [page |-> page_id,
               doc  |-> Serialize(docs[xmlfiles[ListIndex(xmlfiles, page_id)]]),
               at   |-> at])

\* the loop of store(): every document, in the order of xmlfiles
RECURSIVE WriteAll(_, _, _)
WriteAll(w, i, at) ==
    IF i > NumPages THEN w
    ELSE WriteAll(Append(w, [page |-> xmlfiles[i], doc |-> Serialize(docs[i]), at |-> at]),
                  i + 1, at)

\* Python truthiness of self._last_page_id
Truthy(id) == id # NoPage

\* a variant that writes the page just reached instead of the page left
FlushOnPageChange_NewPage(w, page_id, at, newdocs) ==
    IF last_page_id # page_id /\ Truthy(last_page_id)
    THEN Append(w, [page |-> page_id,
                    doc  |-> Serialize(newdocs[xmlfiles[ListIndex(xmlfiles, page_id)]]),
                    at   |-> at])
    ELSE w

\* the page written by store_text when the record's page differs from the
\* tracked one (lines 321-323)
FlushOnPageChange(w, page_id, at, newdocs) ==
    IF last_page_id # page_id /\ Truthy(last_page_id)
    THEN Append(w, [page |-> last_page_id,
                    doc  |-> Serialize(newdocs[xmlfiles[ListIndex(xmlfiles, last_page_id)]]),
                    at   |-> at])
    ELSE w

store_text(sentence, page_id, line) ==
    LET newdocs == [docs EXCEPT ![page_id][line] = AttachText(docs[page_id][line], sentence)]
        at      == Len(calls) + 1
    IN  /\ docs' = newdocs
        /\ writes' = FlushOnPageChange(writes, page_id, at, newdocs)
        /\ last_page_id' = IF last_page_id # page_id THEN page_id ELSE last_page_id
        /\ calls' = Append(calls, [op |-> "store_text", text |-> sentence,
                                   page |-> page_id, line |-> line])
        /\ UNCHANGED <<loadVars, cutVars>>

\* a variant that forgets to reset the tracked page
store_KeepsTracking ==
    LET at == Len(calls) + 1
    IN  /\ Len(calls) < MaxCalls
        /\ IF Truthy(last_page_id)
           THEN writes' = WritePage(writes, last_page_id, at)
           ELSE writes' = WriteAll(writes, 1, at)
        /\ calls' = Append(calls, [op |-> "store", text |-> "", page |-> NoPage, line |-> 0])
        /\ UNCHANGED <<docs, last_page_id, loadVars, cutVars>>

store ==
    LET at == Len(calls) + 1
    IN  /\ Len(calls) < MaxCalls
        /\ IF Truthy(last_page_id)
           THEN /\ writes' = WritePage(writes, last_page_id, at)
                /\ last_page_id' = NoPage
           ELSE /\ writes' = WriteAll(writes, 1, at)
                /\ UNCHANGED last_page_id
        /\ calls' = Append(calls, [op |-> "store", text |-> "", page |-> NoPage, line |-> 0])
        /\ UNCHANGED <<docs, loadVars, cutVars>>

prepare_store ==
    /\ Len(calls) < MaxCalls
    /\ last_page_id' = NoPage
    /\ calls' = Append(calls, [op |-> "prepare_store", text |-> "", page |-> NoPage, line |-> 0])
    /\ UNCHANGED <<docs, writes, loadVars, cutVars>>

\* sequential prediction: one transcription per record
StoreText ==
    /\ Len(calls) < MaxCalls
    /\ \E p \in Pages, l \in Lines : store_text("a", p, l)

\* no exception
NoErr == [type |-> None]

\* the parts of the reader a specification leaves idle
IdleLoad ==
    /\ input = None /\ pc = "idle" /\ gen = None /\ cursor = 0
    /\ samples = << >> /\ fate = << >> /\ err = NoErr
    /\ img = None /\ cutouts = << >> /\ warned = 0
IdleCut == cut_in = None /\ cut_out = [status |-> "idle"]
IdleTracker ==
    /\ docs = << >> /\ last_page_id = NoPage /\ writes = << >> /\ calls = << >>

InitTracker ==
    /\ IdleLoad /\ IdleCut
    /\ docs = InitDocs
    /\ last_page_id = NoPage
    /\ writes = << >>
    /\ calls = << >>

NextTracker == StoreText \/ store \/ prepare_store

SpecTracker == InitTracker /\ [][NextTracker]_vars

\* any transcription for any record, on pages of any layout
AttachAny ==
    /\ Len(calls) < MaxAttachCalls
    /\ \E t \in Texts, p \in Pages, l \in Lines : store_text(t, p, l)

InitAttach ==
    /\ IdleLoad /\ IdleCut
    /\ \E layout \in [Lines -> LineKinds] :
          docs = [p \in Pages |-> [l \in Lines |-> LineOfKind(layout[l])]]
    /\ last_page_id = NoPage
    /\ writes = << >>
    /\ calls = << >>

NextAttach == AttachAny

SpecAttach == InitAttach /\ [][NextAttach]_vars

(***************************************************************************)
(* Claims about the write-back tracker.                                    *)
(***************************************************************************)
LastCall == calls[Len(calls)]
WritesOf(p) == {k \in 1..Len(writes) : writes[k].page = p}
WritesAt(i) == {k \in 1..Len(writes) : writes[k].at = i}

\* the calls so far are n >= 1 store_text calls, strictly grouped by page id,
\* followed by nothing or by one trailing store
GroupedRun(n) ==
    /\ n >= 1
    /\ Len(calls) \in {n, n + 1}
    /\ \A i \in 1..n : calls[i].op = "store_text"
    /\ Len(calls) = n + 1 => calls[n + 1].op = "store"
    /\ \A i, j, k \in 1..n :
          (i < j /\ j < k /\ calls[i].page = calls[k].page) => calls[j].page = calls[i].page

\* C1: in a run of store_text calls strictly grouped by page id, every page
\* but the last is written exactly once, during the first store_text call of
\* the page that follows it; the last page is written by no store_text call
\* and exactly once by the trailing store; no other page is written.
C1_PageFlushedOnceAtBoundary ==
    \A n \in 1..Len(calls) :
        GroupedRun(n) =>
            LET last == calls[n].page
                seen == {calls[i].page : i \in 1..n}
            IN  /\ \A p \in seen \ {last} :
                      LET end == CHOOSE i \in 1..n :
                                    calls[i].page = p /\ calls[i + 1].page # p
                      IN  /\ Cardinality(WritesOf(p)) = 1
                          /\ \A k \in WritesOf(p) : writes[k].at = end + 1
                /\ \A k \in WritesOf(last) : writes[k].at = n + 1
                /\ Len(calls) = n + 1 => Cardinality(WritesOf(last)) = 1
                /\ \A k \in 1..Len(writes) : writes[k].page \in seen

\* two pages of two lines each, then the trailing store
C1_Witness ==
    /\ Len(calls) = 5
    /\ GroupedRun(4)
    /\ calls[1].page = 1 /\ calls[2].page = 1 /\ calls[1].line # calls[2].line
    /\ calls[3].page = 2 /\ calls[4].page = 2 /\ calls[3].line # calls[4].line
    /\ Len(writes) = 2
    /\ writes[1].page = 1 /\ writes[1].at = 3
    /\ writes[2].page = 2 /\ writes[2].at = 5

StoreStep ==
    /\ Len(calls') = Len(calls) + 1
    /\ calls'[Len(calls')].op = "store"

\* C2 (as claimed): a store call writes no page other than the tracked one
\* (nothing when no page is tracked) and leaves no page tracked.
C2_StoreWritesOnlyTracked ==
    [][StoreStep =>
          /\ \A k \in (Len(writes) + 1)..Len(writes') : writes'[k].page = last_page_id
          /\ last_page_id' = NoPage]_vars

\* C2 (amended): a store call with a page tracked writes that page's document
\* and nothing else, and leaves no page tracked; a store call with no page
\* tracked itself writes every document of the reader once, as it is.
C2_StoreTrackedOrAll ==
    [][StoreStep =>
          LET new == (Len(writes) + 1)..Len(writes')
          IN  /\ SubSeq(writes', 1, Len(writes)) = writes
              /\ last_page_id' = NoPage
              /\ docs' = docs
              /\ \A k \in new : writes'[k].doc = Serialize(docs[writes'[k].page])
              /\ IF last_page_id # NoPage
                 THEN Cardinality(new) = 1 /\ \A k \in new : writes'[k].page = last_page_id
                 ELSE /\ Cardinality(new) = NumPages
                      /\ \A p \in Pages : \E k \in new : writes'[k].page = p]_vars

\* a store that wrote the tracked page alone, then a store that wrote all
C2_Witness ==
    \E i \in 1..Len(calls) :
        /\ i + 2 <= Len(calls)
        /\ calls[i].op = "store_text" /\ calls[i + 1].op = "store" /\ calls[i + 2].op = "store"
        /\ Cardinality(WritesAt(i + 1)) = 1
        /\ \A k \in WritesAt(i + 1) : writes[k].page = calls[i].page
        /\ Cardinality(WritesAt(i + 2)) = NumPages
        /\ last_page_id = NoPage

\* C3: a second store_text call with the same text and record leaves the
\* page's serialized document as the first call left it.
C3_AttachIdempotent ==
    [][(/\ Len(calls) >= 1
        /\ Len(calls') = Len(calls) + 1
        /\ LastCall.op = "store_text"
        /\ calls'[Len(calls')] = LastCall)
       => Serialize(docs'[LastCall.page]) = Serialize(docs[LastCall.page])]_vars

(***************************************************************************)
(* PageXMLDatasetLoader: one load of an (image, xml) pair, driven by the   *)
(* loop `for sample in loader.load(img, xml)` of PageXMLReader.__init__ or *)
(* of PageXMLReader._load_sample.  Paths are sequences of characters.      *)
(***************************************************************************)
Modes == {"Training", "Evaluation", "Prediction", "Targets"}
INPUT_PROCESSOR == {"Training", "Evaluation", "Prediction"}
TARGETS_PROCESSOR == {"Training", "Evaluation", "Targets"}

\* str.endswith
EndsWith(s, t) ==
    /\ Len(t) <= Len(s)
    /\ SubSeq(s, Len(s) - Len(t) + 1, Len(s)) = t

\* calamari_ocr.utils.split_all_ext(path)[0]: the path with all the
\* extensions of its last component stripped
split_all_ext(path) ==
    LET slashes == {k \in 1..Len(path) : path[k] = "/"}
        base    == IF slashes = {} THEN 1
                   ELSE 1 + CHOOSE k \in slashes : \A j \in slashes : j <= k
        dots    == {k \in base..Len(path) : path[k] = "."}
        stop    == IF dots = {} THEN Len(path) + 1
                   ELSE CHOOSE k \in dots : \A j \in dots : k <= j
    IN  SubSeq(path, 1, stop - 1)

\* line 67 and line 134: the image path does not fit the page's imageFilename
BasenameMismatch(image, imgfile) ==
    ~EndsWith(split_all_ext(image), split_all_ext(imgfile))

\* a variant that makes the check for training alone
GtCheckEnforced_TrainingOnly(mode) == mode = "Training"

\* line 67: the modes in which _samples_gt_from_book makes the check
GtCheckEnforced(mode) == mode \in {"Training", "Evaluation"}

\* textline.xpath('./ns:TextEquiv[@index="N"]') and
\* textline.xpath('./ns:TextEquiv[not(@index)]'), in document order
IsIndexed(te) == te.ns /\ te.index = text_index
IsUntagged(te) == te.ns /\ te.index = NoIndex
\* a variant that prefers the untagged nodes
TEquivs_UntaggedFirst(line) ==
    IF SelectSeq(line.equivs, IsUntagged) # << >>
    THEN SelectSeq(line.equivs, IsUntagged)
    ELSE SelectSeq(line.equivs, IsIndexed)

TEquivs(line) ==
    IF SelectSeq(line.equivs, IsIndexed) # << >>
    THEN SelectSeq(line.equivs, IsIndexed)
    ELSE SelectSeq(line.equivs, IsUntagged)

\* line 86: the line carries a non-empty comments attribute
Commented(line) == line.comments # None /\ line.comments # ""

\* lines 89-97: l.xpath('./ns:Unicode').pop().text, an empty tag read as ''
IsNsChild(u) == u.ns
UnicodeText(te) ==
    LET us == SelectSeq(te.uni, IsNsChild)
    IN  IF us = << >> THEN "IndexError"
        ELSE IF us[Len(us)].text = None THEN "" ELSE us[Len(us)].text
LineText(line) ==
    IF Len(TEquivs(line)) > 0 THEN UnicodeText(TEquivs(line)[1]) ELSE None

\* a variant that tests non_existing_as_empty first
EmptyTextPolicy_EmptyFirst(skip_invalid, non_existing_as_empty) ==
    IF non_existing_as_empty THEN "as_empty"
    ELSE IF skip_invalid THEN "skip_invalid"
    ELSE "raise"

\* lines 99-105: the policy for a line without text
EmptyTextPolicy(skip_invalid, non_existing_as_empty) ==
    IF skip_invalid THEN "skip_invalid"
    ELSE IF non_existing_as_empty THEN "as_empty"
    ELSE "raise"

\* lines 112-115: empty lines are not used for training
DropsEmpty(mode) == mode \in {"Training", "Evaluation"}

\* lines 85-117: what one pass of the loop of _samples_gt_from_book does with
\* a line: [fate, text]
GtOutcome(line) ==
    LET l == input.loader
    IN  IF input.skip_commented /\ Commented(line)
        THEN [fate |-> "commented", text |-> None]
        ELSE IF Len(TEquivs(line)) > 0 /\ LineText(line) = "IndexError"
        THEN [fate |-> "raise_index", text |-> None]
        ELSE IF LineText(line) = None
                /\ EmptyTextPolicy(l.skip_invalid, l.non_existing_as_empty) # "as_empty"
        THEN [fate |-> EmptyTextPolicy(l.skip_invalid, l.non_existing_as_empty),
              text |-> None]
        ELSE LET text == IF LineText(line) = None THEN "" ELSE LineText(line)
             IN  IF DropsEmpty(l.mode) /\ text = ""
                 THEN [fate |-> "empty_dropped", text |-> text]
                 ELSE [fate |-> "yield", text |-> text]

\* np.pad(img, pad, mode='constant', ...): pad pixels on every side
Pad(shape, pad) == [h |-> shape.h + 2 * pad, w |-> shape.w + 2 * pad]

\* lines 367-384: the image the loop body of _load_sample keeps in img
ImgAfterSample(shape, pad) == IF pad # 0 THEN Pad(shape, pad) ELSE shape

\* the body of the caller's loop for one record: add_sample in __init__
\* (line 209), lines 363-386 in _load_sample.  A scale is the pair
\* <<numerator, denominator>> of the division lx / sample['img_width'].
Receive(rec) ==
    IF input.caller = "__init__"
    THEN /\ samples' = Append(samples, rec)
         /\ UNCHANGED <<img, cutouts>>
    ELSE IF ~input.text_only /\ input.loader.mode \in INPUT_PROCESSOR
    THEN /\ cutouts' = Append(cutouts, [id |-> rec.id, shape |-> img,
                                        scale |-> <<img.w, rec.img_width>>])
         /\ img' = ImgAfterSample(img, input.pad)
         /\ samples' = Append(samples, [id |-> rec.id, text |-> rec.text,
                                        line_img |-> Len(cutouts) + 1])
    ELSE /\ samples' = Append(samples, [id |-> rec.id, text |-> rec.text,
                                        line_img |-> None])
         /\ UNCHANGED <<img, cutouts>>

Record(k, text) ==
    [page_id |-> input.xml_path, id |-> k, text |-> text,
     img_width |-> input.xml.imageWidth]

\* lines 47-60, after line 360 when the caller is _load_sample
load ==
    /\ pc = "call"
    /\ img' = IF input.caller = "_load_sample" /\ input.loader.mode \in INPUT_PROCESSOR
              THEN input.loaded ELSE None
    /\ IF ~input.exists
       THEN IF input.loader.non_existing_as_empty
            THEN gen' = "None" /\ pc' = "for" /\ UNCHANGED err
            ELSE /\ err' = [type |-> "NotFound"]
                 /\ pc' = "raised" /\ UNCHANGED gen
       ELSE /\ gen' = IF input.loader.mode \in TARGETS_PROCESSOR
                      THEN "_samples_gt_from_book" ELSE "_samples_from_book"
            /\ pc' = "for" /\ UNCHANGED err
    /\ UNCHANGED <<input, cursor, samples, fate, cutouts, warned, trackerVars, cutVars>>

\* `for sample in None`
iter_none ==
    /\ pc = "for" /\ gen = "None"
    /\ err' = [type |-> "TypeError"]
    /\ pc' = "raised"
    /\ UNCHANGED <<input, gen, cursor, samples, fate, img, cutouts, warned,
                   trackerVars, cutVars>>

\* the generator runs up to its loop: lines 64-73 and lines 131-139
gen_start ==
    /\ pc = "for" /\ gen # "None"
    /\ IF /\ gen = "_samples_gt_from_book" => GtCheckEnforced(input.loader.mode)
          /\ BasenameMismatch(input.image_path, input.xml.imageFilename)
       THEN /\ err' = [type |-> "Mismatch", img |-> input.image_path,
                       imgfile |-> input.xml.imageFilename]
            /\ pc' = "raised" /\ UNCHANGED cursor
       ELSE /\ pc' = "lines" /\ cursor' = 1 /\ UNCHANGED err
    /\ UNCHANGED <<input, gen, samples, fate, img, cutouts, warned, trackerVars, cutVars>>

\* one pass of the loop of _samples_gt_from_book, lines 75-128
gt_line ==
    /\ pc = "lines" /\ gen = "_samples_gt_from_book"
    /\ cursor <= Len(input.xml.lines)
    /\ LET line == input.xml.lines[cursor]
           o    == GtOutcome(line)
       IN  /\ warned' = IF Len(TEquivs(line)) > 1 THEN warned + 1 ELSE warned
           /\ fate' = Append(fate, o)
           /\ IF o.fate = "raise"
              THEN /\ err' = [type |-> "EmptyText"] /\ pc' = "raised"
                   /\ UNCHANGED <<cursor, samples, img, cutouts>>
              ELSE IF o.fate = "raise_index"
              THEN /\ err' = [type |-> "IndexError"] /\ pc' = "raised"
                   /\ UNCHANGED <<cursor, samples, img, cutouts>>
              ELSE /\ cursor' = cursor + 1
                   /\ UNCHANGED <<err, pc>>
                   /\ IF o.fate = "yield"
                      THEN Receive(Record(cursor, o.text))
                      ELSE UNCHANGED <<samples, img, cutouts>>
    /\ UNCHANGED <<input, gen, trackerVars, cutVars>>

\* one pass of the loop of _samples_from_book, lines 140-157
book_line ==
    /\ pc = "lines" /\ gen = "_samples_from_book"
    /\ cursor <= Len(input.xml.lines)
    /\ fate' = Append(fate, [fate |-> "yield", text |-> None])
    /\ cursor' = cursor + 1
    /\ Receive(Record(cursor, None))
    /\ UNCHANGED <<input, pc, gen, err, warned, trackerVars, cutVars>>

\* the generator is exhausted and the caller's loop ends
gen_end ==
    /\ pc = "lines"
    /\ cursor > Len(input.xml.lines)
    /\ pc' = "done"
    /\ UNCHANGED <<input, gen, cursor, samples, fate, err, img, cutouts, warned,
                   trackerVars, cutVars>>

\* the TextLines a page file may hold
ExtKinds == 1..9
ExtLine(k) ==
    CASE k = 1 -> [comments |-> None, equivs |-> << >>]
      [] k = 2 -> [comments |-> "",
                   equivs |-> << TextEquiv(TRUE, text_index, << Unicode(TRUE, "x") >>) >>]
      [] k = 3 -> [comments |-> None,
                   equivs |-> << TextEquiv(TRUE, NoIndex, << Unicode(TRUE, "u") >>) >>]
      [] k = 4 -> [comments |-> None,
                   equivs |-> << TextEquiv(TRUE, text_index + 1, << Unicode(TRUE, "o") >>) >>]
      [] k = 5 -> [comments |-> None,
                   equivs |-> << TextEquiv(TRUE, text_index, << Unicode(TRUE, None) >>) >>]
      [] k = 6 -> [comments |-> None,
                   equivs |-> << TextEquiv(TRUE, text_index + 1, << Unicode(TRUE, "o") >>),
                                 TextEquiv(TRUE, NoIndex, << Unicode(TRUE, "u") >>),
                                 TextEquiv(TRUE, NoIndex, << Unicode(TRUE, "v") >>),
                                 TextEquiv(TRUE, text_index, << Unicode(TRUE, "x") >>),
                                 TextEquiv(TRUE, text_index, << Unicode(TRUE, "y") >>) >>]
      [] k = 7 -> [comments |-> None,
                   equivs |-> << TextEquiv(TRUE, text_index + 1, << Unicode(TRUE, "o") >>),
                                 TextEquiv(TRUE, NoIndex, << Unicode(TRUE, "u") >>),
                                 TextEquiv(TRUE, NoIndex, << Unicode(TRUE, "v") >>) >>]
      [] k = 8 -> [comments |-> "c", equivs |-> << >>]
      [] OTHER -> [comments |-> "c",
                   equivs |-> << TextEquiv(TRUE, text_index, << Unicode(TRUE, "x") >>),
                                 TextEquiv(TRUE, text_index, << Unicode(TRUE, "y") >>) >>]

LineSeqs(kinds) ==
    UNION {{[i \in 1..n |-> ExtLine(ks[i])] : ks \in [1..n -> kinds]} : n \in 0..MaxLines}

ImgPaths == { <<"s", "/", "p", "1", ".", "t", ".", "g">>,
              <<"s", "/", "p", "2", ".", "t">>,
              <<"p", "1", ".", "t">> }
ImageFilenames == { <<"p", "1", ".", "p">>, <<"s", "/", "p", "1", ".", "p">> }
Shapes == { [h |-> 3, w |-> 4], [h |-> 6, w |-> 8] }
Pads == {0, 1}

LoadStart ==
    /\ pc = "call" /\ gen = None /\ cursor = 0
    /\ samples = << >> /\ fate = << >> /\ err = NoErr
    /\ img = None /\ cutouts = << >> /\ warned = 0

\* page files of every kind, read by either caller
InitExtract ==
    \E mode \in Modes, nea \in BOOLEAN, skip \in BOOLEAN,
       caller \in {"__init__", "_load_sample"}, image \in ImgPaths :
        \/ input = [loader |-> [mode |-> mode, non_existing_as_empty |-> nea,
                                skip_invalid |-> skip],
                    caller |-> caller, text_only |-> TRUE, pad |-> 0,
                    skip_commented |-> TRUE, image_path |-> image,
                    loaded |-> [h |-> 3, w |-> 4],
                    xml_path |-> "s/p1.xml", exists |-> FALSE, xml |-> None]
        \/ \E imgfile \in ImageFilenames, lines \in LineSeqs(ExtKinds) :
             input = [loader |-> [mode |-> mode, non_existing_as_empty |-> nea,
                                  skip_invalid |-> skip],
                      caller |-> caller, text_only |-> TRUE, pad |-> 0,
                      skip_commented |-> TRUE, image_path |-> image,
                      loaded |-> [h |-> 3, w |-> 4],
                      xml_path |-> "s/p1.xml", exists |-> TRUE,
                      xml |-> [imageFilename |-> imgfile, imageWidth |-> 4,
                               lines |-> lines]]

\* pages of transcribed lines, assembled into samples by _load_sample
InitAssemble ==
    \E mode \in Modes, text_only \in BOOLEAN, pad \in Pads, loaded \in Shapes,
       width \in {4, 8}, lines \in LineSeqs({2}) :
        input = [loader |-> [mode |-> mode, non_existing_as_empty |-> FALSE,
                             skip_invalid |-> FALSE],
                 caller |-> "_load_sample", text_only |-> text_only, pad |-> pad,
                 skip_commented |-> TRUE,
                 image_path |-> <<"s", "/", "p", "1", ".", "t", ".", "g">>,
                 loaded |-> loaded,
                 xml_path |-> "s/p1.xml", exists |-> TRUE,
                 xml |-> [imageFilename |-> <<"p", "1", ".", "p">>,
                          imageWidth |-> width, lines |-> lines]]

InitLoad ==
    /\ IdleTracker /\ IdleCut
    /\ LoadStart
    /\ (InitExtract \/ InitAssemble)

NextLoad == load \/ iter_none \/ gen_start \/ gt_line \/ book_line \/ gen_end

SpecLoad == InitLoad /\ [][NextLoad]_vars

(***************************************************************************)
(* Claims about the line record extractor and the sample assembler.        *)
(***************************************************************************)
GroundTruth == gen = "_samples_gt_from_book"
Visited == 1..Len(fate)
\* the line was not excluded by its comments attribute
Extracted(i) == ~(input.xml.lines[i].comments \notin {None, ""})
NodeText(te) == IF te.uni[1].text = None THEN "" ELSE te.uni[1].text
Tagged(i) == {k \in 1..Len(input.xml.lines[i].equivs) :
                 input.xml.lines[i].equivs[k].index = text_index}
Untagged(i) == {k \in 1..Len(input.xml.lines[i].equivs) :
                   input.xml.lines[i].equivs[k].index = NoIndex}
Foreign(i) == (1..Len(input.xml.lines[i].equivs)) \ (Tagged(i) \cup Untagged(i))
Min(S) == CHOOSE k \in S : \A j \in S : k <= j
Unresolved(i) == Tagged(i) = {} /\ Untagged(i) = {}
SamplesOf(i) == {k \in 1..Len(samples) : samples[k].id = i}

\* C4 (as claimed): with the xml file missing, a loader configured with
\* non_existing_as_empty gives the caller no record and raises nothing, in
\* __init__ and in _load_sample; one not so configured raises not-found.
C4_MissingAsEmpty ==
    (pc # "call" /\ ~input.exists) =>
        IF input.loader.non_existing_as_empty
        THEN err.type = None /\ samples = << >>
        ELSE err.type = "NotFound" /\ samples = << >>

\* C5: in ground-truth mode a line without a node of the configured index and
\* without an untagged node is dropped without error under skip_invalid, else
\* gets the text "" under non_existing_as_empty, else ends the extraction with
\* the empty-text error; a line whose selected node is empty has the text ""
\* and meets none of the three.
C5_EmptyTextPolicy ==
    GroundTruth =>
        \A i \in Visited :
            Extracted(i) =>
                /\ Unresolved(i) =>
                      IF input.loader.skip_invalid
                      THEN /\ fate[i].fate = "skip_invalid"
                           /\ SamplesOf(i) = {} /\ err.type = None
                      ELSE IF input.loader.non_existing_as_empty
                      THEN /\ fate[i].text = ""
                           /\ fate[i].fate \in {"yield", "empty_dropped"}
                           /\ \A k \in SamplesOf(i) : samples[k].text = ""
                           /\ err.type = None
                      ELSE /\ fate[i].fate = "raise" /\ i = Len(fate)
                           /\ err.type = "EmptyText" /\ pc = "raised"
                           /\ SamplesOf(i) = {}
                /\ (Tagged(i) # {}
                    /\ input.xml.lines[i].equivs[Min(Tagged(i))].uni[1].text = None) =>
                      /\ fate[i].text = ""
                      /\ fate[i].fate \in {"yield", "empty_dropped"}

\* an empty node read as "", then the empty-text error at a line without node
C5_Witness ==
    /\ GroundTruth /\ Len(fate) = 2
    /\ ~input.loader.skip_invalid /\ ~input.loader.non_existing_as_empty
    /\ Tagged(1) # {} /\ fate[1] = [fate |-> "yield", text |-> ""]
    /\ Len(samples) = 1 /\ samples[1].text = ""
    /\ Unresolved(2) /\ Extracted(2) /\ Len(input.xml.lines[2].equivs) > 0
    /\ err.type = "EmptyText"

\* the modes in which the image/document check is made
Enforced == input.loader.mode \in {"Prediction", "Training", "Evaluation"}
Stripped(path) == split_all_ext(path)

\* C6: where the check is enforced, the extraction ends with the mismatch
\* error, carrying both paths and before any record, exactly when the image
\* path without extensions does not end with the declared image filename
\* without extensions; a mismatch error is raised in no other case.
C6_MismatchExactly ==
    /\ err.type = "Mismatch" =>
          /\ Enforced
          /\ ~EndsWith(Stripped(input.image_path), Stripped(input.xml.imageFilename))
          /\ err.img = input.image_path /\ err.imgfile = input.xml.imageFilename
          /\ samples = << >> /\ fate = << >>
    /\ (pc \in {"lines", "done"} \/ Len(fate) > 0) =>
          (Enforced =>
              EndsWith(Stripped(input.image_path), Stripped(input.xml.imageFilename)))

\* "s/p2.t" against imageFilename "p1.p", in evaluation
C6_Witness ==
    /\ pc = "raised" /\ err.type = "Mismatch"
    /\ input.loader.mode = "Evaluation"
    /\ input.image_path = <<"s", "/", "p", "2", ".", "t">>
    /\ input.xml.imageFilename = <<"p", "1", ".", "p">>

\* C8: in ground-truth mode the text of a line is that of its first node with
\* the configured index if there is one, else that of its first untagged node
\* if there is one; never that of a node with another index; several
\* candidates do not end the extraction.
C8_TextSelection ==
    GroundTruth =>
        \A i \in Visited :
            (Extracted(i) /\ ~Unresolved(i)) =>
                LET pick == IF Tagged(i) # {} THEN Min(Tagged(i)) ELSE Min(Untagged(i))
                IN  /\ fate[i].text = NodeText(input.xml.lines[i].equivs[pick])
                    /\ fate[i].fate \in {"yield", "empty_dropped"}
                    /\ fate[i].fate = "yield" =>
                          /\ Cardinality(SamplesOf(i)) = 1
                          /\ \A k \in SamplesOf(i) : samples[k].text = fate[i].text
                    /\ \A k \in Foreign(i) :
                          fate[i].text # NodeText(input.xml.lines[i].equivs[k])
                    /\ (i = Len(fate)) => pc # "raised"
                
\* the first of two nodes with the index, then the first of two untagged ones
C8_Witness ==
    /\ GroundTruth /\ pc = "done" /\ Len(samples) = 2
    /\ Cardinality(Tagged(1)) = 2 /\ Cardinality(Untagged(1)) = 2 /\ Extracted(1)
    /\ samples[1].text = "x"
    /\ Tagged(2) = {} /\ Cardinality(Untagged(2)) = 2 /\ Foreign(2) # {}
    /\ samples[2].text = "u"
    /\ warned = 2

\* equality of two scales given as fractions
SameScale(a, b) == a[1] * b[2] = b[1] * a[2]

\* C10 (as claimed): every call of cutout made for a page is given the scale
\* (width of the image as loaded) / (declared image width), and the image as
\* loaded.
C10_ScaleFromLoadedWidth ==
    \A k \in 1..Len(cutouts) :
        /\ SameScale(cutouts[k].scale, <<input.loaded.w, input.xml.imageWidth>>)
        /\ cutouts[k].shape = input.loaded

(***************************************************************************)
(* PageXMLReader.cutout with mode = CutMode.BOX and angle = 0.  An image   *)
(* is [h, w, px]: px[r][c] is the pixel of row r-1 and column c-1.         *)
(***************************************************************************)
MinOf(S) == CHOOSE k \in S : \A j \in S : k <= j
MaxOf(S) == CHOOSE k \in S : \A j \in S : j <= k

\* the page image: every pixel has its own value
PageImage ==
    [h |-> ImgH, w |-> ImgW,
     px |-> [r \in 1..ImgH |-> [c \in 1..ImgW |-> 10 * (r - 1) + (c - 1)]]]

\* int(scale * int(c)) for a coordinate c >= 0 and the scale n/d
ScaleCoord(scale, c) == (scale[1] * c) \div scale[2]

\* lines 236-238: the "x,y" tokens of the coords string as (y, x) pairs,
\* scaled: the first component is the row, the second the column
ParseCoords(points, scale) ==
    [k \in 1..Len(points) |->
        <<ScaleCoord(scale, points[k][2]), ScaleCoord(scale, points[k][1])>>]

\* a[lo:hi] on one axis of length n, for lo, hi >= 0
SliceRange(lo, hi, n) == {k \in 1..n : lo + 1 <= k /\ k <= hi}

\* image[r0:r1, c0:c1]
Crop(image, r0, r1, c0, c1) ==
    LET rows == SliceRange(r0, r1, image.h)
        cols == SliceRange(c0, c1, image.w)
    IN  [h  |-> Cardinality(rows), w |-> Cardinality(cols),
         px |-> [r \in 1..Cardinality(rows) |->
                    [c \in 1..Cardinality(cols) |-> image.px[r0 + r][c0 + c]]]]

\* a variant that crops without swapping the bounds back
FinalCrop_NoSwap(cut, minX, maxX, minY, maxY) ==
    Crop(cut, minY, maxY + 1, minX, maxX + 1)

\* lines 281-284 and 301: with angle = 0 the bounds are swapped and the cut
\* is cropped to [minY:maxY+1, minX:maxX+1]
FinalCrop(cut, minX, maxX, minY, maxY) ==
    LET sminX == minY
        sminY == minX
        smaxX == maxY
        smaxY == maxX
    IN  Crop(cut, sminY, smaxY + 1, sminX, smaxX + 1)

cutout(pageimg, points, scale) ==
    LET coords == ParseCoords(points, scale)
        Xs     == {coords[k][1] : k \in 1..Len(coords)}
        Ys     == {coords[k][2] : k \in 1..Len(coords)}
    IN  IF Len(coords) = 0
        THEN [status |-> "raised", err |-> "ValueError"]
        ELSE LET minX == MinOf(Xs)
                 maxX == MaxOf(Xs)
                 minY == MinOf(Ys)
                 maxY == MaxOf(Ys)
                 cut  == Crop(pageimg, minX, maxX + 1, minY, maxY + 1)
             IN  IF cut.h * cut.w = 0
                 THEN [status |-> "ok", img |-> cut]
                 ELSE [status |-> "ok",
                       img |-> FinalCrop(cut, 0, maxX - minX, 0, maxY - minY)]

Cutout ==
    /\ cut_out.status = "pending"
    /\ cut_out' = cutout(cut_in.pageimg, cut_in.points, cut_in.scale)
    /\ UNCHANGED <<cut_in, trackerVars, loadVars>>

Coords == (0..ImgW) \X (0..ImgH)
Polygons == UNION {[1..n -> Coords] : n \in 0..MaxPoints}
Scales == { <<1, 1>>, <<2, 1>> }

InitCutout ==
    /\ IdleTracker /\ IdleLoad
    /\ \E points \in Polygons, scale \in Scales :
          cut_in = [pageimg |-> PageImage, points |-> points, scale |-> scale,
                    mode |-> "BOX", angle |-> 0]
    /\ cut_out = [status |-> "pending"]

NextCutout == Cutout

SpecCutout == InitCutout /\ [][NextCutout]_vars

(***************************************************************************)
(* Claims about cutout.                                                    *)
(***************************************************************************)
PolyXs == {cut_in.points[k][1] : k \in 1..Len(cut_in.points)}
PolyYs == {cut_in.points[k][2] : k \in 1..Len(cut_in.points)}
Returned == cut_out.status \notin {"pending", "idle"}

\* C7 (as claimed): for a polygon without points, or with all its points
\* identical, cutout raises nothing and returns an image of size zero.
C7_DegenerateIsEmpty ==
    (Returned /\ Cardinality(PolyXs) <= 1 /\ Cardinality(PolyYs) <= 1) =>
        /\ cut_out.status = "ok"
        /\ cut_out.img.h * cut_out.img.w = 0

\* C9: for a polygon inside the image, with scale 1, the result is as high as
\* (max y - min y + 1), as wide as (max x - min x + 1), and holds the pixels
\* of that region of the image.
C9_BoundingBoxCrop ==
    (/\ Returned
     /\ cut_in.scale = <<1, 1>>
     /\ Len(cut_in.points) > 0
     /\ \A x \in PolyXs : x < ImgW
     /\ \A y \in PolyYs : y < ImgH) =>
        /\ cut_out.status = "ok"
        /\ cut_out.img.h = MaxOf(PolyYs) - MinOf(PolyYs) + 1
        /\ cut_out.img.w = MaxOf(PolyXs) - MinOf(PolyXs) + 1
        /\ \A r \in 1..cut_out.img.h : \A c \in 1..cut_out.img.w :
              cut_out.img.px[r][c] =
                  cut_in.pageimg.px[MinOf(PolyYs) + r][MinOf(PolyXs) + c]

\* a polygon that is wider than high and touches no corner of the image
C9_Witness ==
    /\ Returned /\ cut_in.scale = <<1, 1>>
    /\ PolyXs = {1, 2} /\ PolyYs = {1}
    /\ cut_out.status = "ok"
    /\ cut_out.img.h = 1 /\ cut_out.img.w = 2
    /\ cut_out.img.px = << <<11, 12>> >>

====
